---- MODULE Spec2Model ----
(***************************************************************************)
(* Model of terrier's vectorized table scan layer:                         *)
(*   src/src/execution/sql/table_vector_iterator.cpp                       *)
(*   src/test/execution/table_vector_iterator_test.cpp                     *)
(*                                                                         *)
(* Three specifications share the variables:                               *)
(*   SpecIter  one TableVectorIterator driven by an arbitrary caller       *)
(*   SpecScan  one TableVectorIterator driven by the scan loop of          *)
(*             SimpleIteratorTest                                          *)
(*   SpecPar   one call of TableVectorIterator::ParallelScan with the      *)
(*             counting callback of ParallelScanTest                       *)
(***************************************************************************)
EXTENDS Integers, Sequences, FiniteSets, Bags, TLC

VARIABLES
  catalog,     \* table oid -> [exists, blocks]: the catalog accessor's tables
  tvi,         \* the fields of the TableVectorIterator under test
  alive,       \* "live" | "destroyed": lifetime of tvi
  mem,         \* accounting of the execution context's memory pool
  crashed,     \* "no" | "assert" | "segv": how the process died, if it did
  last,        \* the last call made on tvi: [op, ret, filled]
  pc,          \* position of the test's scan loop (SpecScan)
  num_tuples,  \* SimpleIteratorTest::num_tuples
  seen,        \* rows the scan loop read through the row cursor, in order
  ps,          \* frame of the ParallelScan call (SpecPar)
  pool,        \* block ranges parallel_for still has to split or run
  workers,     \* worker thread -> what it is running
  counters,    \* worker thread -> Counter::c of its thread state slot
  calls,       \* bag of the invocations of the scan callback
  handed       \* bag of the block ranges passed to ScanTask::operator()

vars == <<catalog, tvi, alive, mem, crashed, last, pc, num_tuples, seen,
          ps, pool, workers, counters, calls, handed>>

iterVars == <<tvi, alive, last>>
scanVars == <<pc, num_tuples, seen>>
parVars  == <<ps, pool, workers, counters, calls, handed>>

(***************************************************************************)
(* Bounds of the model.                                                    *)
(***************************************************************************)
\* largest number of blocks of a table
MaxBlocks == 7
\* tuple slots of one block
SlotsPerBlock == 3
\* rows of one batch: common::Constants::K_DEFAULT_VECTOR_SIZE, scaled down
VectorSize == 2
\* worker threads of the TBB scheduler
NumWorkers == 2

(***************************************************************************)
(* Program constants.                                                      *)
(***************************************************************************)
\* std::numeric_limits<uint32_t>::max(), the default end block index.  TLC's
\* integers are 32-bit signed, so the largest of them stands for it; the
\* program only ever compares it with block counts.
DefaultEndBlockIdx == 2147483647
\* size_t min_grain_size = 3
min_grain_size == 3
\* number of values of uint16_t, the type of ScanTask::table_id_
Uint16Range == 65536

Min(a, b) == IF a <= b THEN a ELSE b

(***************************************************************************)
(* The catalog and the storage layer (collaborators of the scan layer).    *)
(***************************************************************************)
\* table oids the callers use: one that fits 16 bits, one that does not
TableOids == {1, 65537}

\* a catalog lookup that finds nothing returns nullptr
NullTable == 0

\* a null pointer to a buffer
NullBuffer == 0

\* a null std::unique_ptr<SlotIterator>
NullIter == [block |-> -1, slot |-> -1]

\* a table is its list of blocks, each given by its number of rows: blocks
\* are filled in order, so every block is full except possibly the last
TableOf(n, lastRows) ==
  [exists |-> TRUE,
   blocks |-> [i \in 1..n |-> IF i = n THEN lastRows ELSE SlotsPerBlock]]

NoEntry == [exists |-> FALSE, blocks |-> <<>>]

Tables ==
  {TableOf(0, 0)} \cup {TableOf(n, k) : n \in 1..MaxBlocks, k \in 1..SlotsPerBlock}

\* the natural column set of every table, in storage order: column 1 is
\* the narrowest column (the SmallInt serial column of the test table), so
\* the storage layer lays it out last
NaturalColOids == <<2, 1>>

\* column request lists of the callers (empty: all columns)
ColRequests == {<<>>, <<1>>, <<1, 2>>, <<2, 1>>}

\* CatalogAccessor::GetTable: the handle of the table, or nullptr
GetTable(cat, oid) ==
  IF oid \in DOMAIN cat /\ cat[oid].exists THEN oid ELSE NullTable

\* SqlTable::GetBlockListSize
GetBlockListSize(cat, t) == Len(cat[t].blocks)

\* SqlTable::GetAllColOid
GetAllColOid(cat, t) == NaturalColOids

\* SqlTable::InitializerForProjectedColumns: the columns of the batch, one
\* per requested column, laid out in storage order whatever the order of
\* the request (a request for all columns finds column 1 at the last index,
\* a request for column 1 alone finds it at index 0)
InitializerForProjectedColumns(cat, t, col_oids) ==
  LET Requested(c) == \E i \in DOMAIN col_oids : col_oids[i] = c
  IN  SelectSeq(NaturalColOids, Requested)

\* SqlTable::beginAt(idx): the cursor at the first slot of block idx, the
\* end of the table when there is no such block
beginAt(cat, t, idx) ==
  [block |-> Min(idx, GetBlockListSize(cat, t)), slot |-> 0]

\* SqlTable::endAt(idx): the cursor one past the last slot of block idx - 1
endAt(cat, t, idx) ==
  [block |-> Min(idx, GetBlockListSize(cat, t)), slot |-> 0]

\* SlotIterator::operator++
NextSlot(cat, t, it) ==
  IF it.slot + 1 < cat[t].blocks[it.block + 1]
    THEN [block |-> it.block, slot |-> it.slot + 1]
    ELSE [block |-> it.block + 1, slot |-> 0]

\* SqlTable::RangeScan: fills the batch with the next run of at most `room`
\* rows found from cursor `it` up to cursor `end`, and moves `it` past them.
\* A row is named by its block index and its slot.
RECURSIVE RangeScan(_, _, _, _, _)
RangeScan(cat, t, it, end, room) ==
  IF room = 0 \/ it = end \/ it.block >= GetBlockListSize(cat, t)
    THEN [iter |-> it, rows |-> <<>>]
    ELSE LET rest == RangeScan(cat, t, NextSlot(cat, t, it), end, room - 1)
         IN  [iter |-> rest.iter, rows |-> <<<<it.block, it.slot>>>> \o rest.rows]

\* all rows of blocks [lo, hi) of a table, in storage order
RECURSIVE RowsOfBlocks(_, _, _, _)
RowsOfBlocks(cat, t, lo, hi) ==
  IF lo >= hi \/ lo >= GetBlockListSize(cat, t)
    THEN <<>>
    ELSE [s \in 1..cat[t].blocks[lo + 1] |-> <<lo, s - 1>>]
           \o RowsOfBlocks(cat, t, lo + 1, hi)

(***************************************************************************)
(* The memory pool of the execution context.                               *)
(***************************************************************************)
\* no allocation yet
EmptyPool == [live |-> {}, allocs |-> 0, frees |-> 0, bad |-> 0]

\* MemoryPool::AllocateAligned: a pointer that is not live (the lowest
\* such address; pointers are numbered from 1)
AllocateAligned(m) ==
  LET p == CHOOSE q \in 1..(Cardinality(m.live) + 1) :
             q \notin m.live /\ \A o \in 1..(q - 1) : o \in m.live
  IN  [ptr |-> p,
       mem |-> [m EXCEPT !.live = @ \cup {p}, !.allocs = @ + 1]]

\* MemoryPool::Deallocate: `bad` counts the calls whose pointer is not a
\* live allocation of the pool
Deallocate(m, ptr) ==
  [m EXCEPT !.frees = @ + 1,
            !.live = @ \ {ptr},
            !.bad = IF ptr \in m.live THEN @ ELSE @ + 1]

(***************************************************************************)
(* TableVectorIterator.                                                    *)
(***************************************************************************)
\* a null storage::ProjectedColumns *
NullPC == [null |-> TRUE, cols |-> <<>>, rows |-> <<>>, capacity |-> 0]

\* ProjectedColumnsIterator::Get(col_idx): the column that index col_idx
\* of the row cursor reads
RowCursorColumn(it, col_idx) == it.projected_columns_.cols[col_idx + 1]

\* the position of a column in the storage layout of the table
StoragePosition(c) == CHOOSE p \in DOMAIN NaturalColOids : NaturalColOids[p] = c

\* a ProjectedColumnsIterator bound to nothing
UnboundPCI == [bound |-> FALSE, idx |-> 0]

\* the six-argument constructor; the members it does not name keep the
\* defaults of the class (null pointers, initialized_ = false).
\* `requested` is not a member: it remembers the col_oids array the caller
\* passed, which Init() may replace in col_oids_
TableVectorIterator(table_oid, col_oids, start_block_idx, end_block_idx) ==
  [table_oid_         |-> table_oid,
   requested          |-> col_oids,
   col_oids_          |-> col_oids,
   start_block_idx_   |-> start_block_idx,
   end_block_idx_     |-> end_block_idx,
   table_             |-> NullTable,
   buffer_            |-> NullBuffer,
   projected_columns_ |-> NullPC,
   initialized_       |-> FALSE,
   iter_              |-> NullIter,
   iter_end_          |-> NullIter,
   pci_               |-> UnboundPCI]

\* the four-argument constructor: the range [0, UINT32_MAX)
TableVectorIteratorDefault(table_oid, col_oids) ==
  TableVectorIterator(table_oid, col_oids, 0, DefaultEndBlockIdx)

\* Init() that positions the cursor at the start of the table instead of
\* at start_block_idx_
Init_from_table_begin(it, cat, m) ==
  LET t == GetTable(cat, it.table_oid_) IN
  IF t = NullTable
    THEN {[it |-> [it EXCEPT !.table_ = t], mem |-> m, ret |-> FALSE, crash |-> c] :
            c \in {"assert", "segv"}}
    ELSE LET cols == IF it.col_oids_ = <<>> THEN GetAllColOid(cat, t) ELSE it.col_oids_
             a    == AllocateAligned(m)
         IN  {[it |-> [it EXCEPT
                         !.table_ = t,
                         !.col_oids_ = cols,
                         !.buffer_ = a.ptr,
                         !.projected_columns_ =
                            [null |-> FALSE,
                             cols |-> InitializerForProjectedColumns(cat, t, cols),
                             rows |-> <<>>, capacity |-> VectorSize],
                         !.initialized_ = TRUE,
                         !.iter_ = beginAt(cat, t, 0),
                         !.iter_end_ = endAt(cat, t, it.end_block_idx_)],
               mem |-> a.mem, ret |-> TRUE, crash |-> "no"]}

\* Init() that sizes the batch for every column of the table, whatever
\* the request
Init_all_columns(it, cat, m) ==
  LET t == GetTable(cat, it.table_oid_) IN
  IF t = NullTable
    THEN {[it |-> [it EXCEPT !.table_ = t], mem |-> m, ret |-> FALSE, crash |-> c] :
            c \in {"assert", "segv"}}
    ELSE LET cols == IF it.col_oids_ = <<>> THEN GetAllColOid(cat, t) ELSE it.col_oids_
             a    == AllocateAligned(m)
         IN  {[it |-> [it EXCEPT
                         !.table_ = t,
                         !.col_oids_ = cols,
                         !.buffer_ = a.ptr,
                         !.projected_columns_ =
                            [null |-> FALSE,
                             cols |-> InitializerForProjectedColumns(cat, t, GetAllColOid(cat, t)),
                             rows |-> <<>>, capacity |-> VectorSize],
                         !.initialized_ = TRUE,
                         !.iter_ = beginAt(cat, t, it.start_block_idx_),
                         !.iter_end_ = endAt(cat, t, it.end_block_idx_)],
               mem |-> a.mem, ret |-> TRUE, crash |-> "no"]}

\* Init() that keeps an empty request as it is
Init_keep_empty_request(it, cat, m) ==
  LET t == GetTable(cat, it.table_oid_) IN
  IF t = NullTable
    THEN {[it |-> [it EXCEPT !.table_ = t], mem |-> m, ret |-> FALSE, crash |-> c] :
            c \in {"assert", "segv"}}
    ELSE LET cols == it.col_oids_
             a    == AllocateAligned(m)
         IN  {[it |-> [it EXCEPT
                         !.table_ = t,
                         !.col_oids_ = cols,
                         !.buffer_ = a.ptr,
                         !.projected_columns_ =
                            [null |-> FALSE,
                             cols |-> InitializerForProjectedColumns(cat, t, cols),
                             rows |-> <<>>, capacity |-> VectorSize],
                         !.initialized_ = TRUE,
                         !.iter_ = beginAt(cat, t, it.start_block_idx_),
                         !.iter_end_ = endAt(cat, t, it.end_block_idx_)],
               mem |-> a.mem, ret |-> TRUE, crash |-> "no"]}

\* TableVectorIterator::Init: the set of its outcomes [it, mem, ret, crash].
\* With a table that does not resolve, TERRIER_ASSERT aborts a debug build
\* and a release build goes on to call through the null table handle.
TableVectorIterator_Init(it, cat, m) ==
  LET t == GetTable(cat, it.table_oid_) IN
  IF t = NullTable
    THEN {[it |-> [it EXCEPT !.table_ = t], mem |-> m, ret |-> FALSE, crash |-> c] :
            c \in {"assert", "segv"}}
    ELSE LET cols == IF it.col_oids_ = <<>> THEN GetAllColOid(cat, t) ELSE it.col_oids_
             a    == AllocateAligned(m)
         IN  {[it |-> [it EXCEPT
                         !.table_ = t,
                         !.col_oids_ = cols,
                         !.buffer_ = a.ptr,
                         !.projected_columns_ =
                            [null |-> FALSE,
                             cols |-> InitializerForProjectedColumns(cat, t, cols),
                             rows |-> <<>>, capacity |-> VectorSize],
                         !.initialized_ = TRUE,
                         !.iter_ = beginAt(cat, t, it.start_block_idx_),
                         !.iter_end_ = endAt(cat, t, it.end_block_idx_)],
               mem |-> a.mem, ret |-> TRUE, crash |-> "no"]}

\* Advance() without the test for the end of the range
Advance_no_end_check(it, cat) ==
  IF ~it.initialized_
    THEN [it |-> it, ret |-> FALSE, filled |-> FALSE]
  ELSE LET r == RangeScan(cat, it.table_, it.iter_, it.iter_end_,
                          it.projected_columns_.capacity)
       IN  [it |-> [it EXCEPT !.iter_ = r.iter,
                              !.projected_columns_.rows = r.rows,
                              !.pci_ = [bound |-> TRUE, idx |-> 0]],
            ret |-> TRUE, filled |-> TRUE]

\* Advance() that fills the batch but does not bind the row cursor to it
Advance_no_rebind(it, cat) ==
  IF ~it.initialized_
    THEN [it |-> it, ret |-> FALSE, filled |-> FALSE]
  ELSE IF it.iter_ = it.iter_end_
    THEN [it |-> it, ret |-> FALSE, filled |-> FALSE]
  ELSE LET r == RangeScan(cat, it.table_, it.iter_, it.iter_end_,
                          it.projected_columns_.capacity)
       IN  [it |-> [it EXCEPT !.iter_ = r.iter,
                              !.projected_columns_.rows = r.rows],
            ret |-> TRUE, filled |-> TRUE]

\* Advance() that fills every batch from the first block of the table
Advance_from_table_begin(it, cat) ==
  IF ~it.initialized_
    THEN [it |-> it, ret |-> FALSE, filled |-> FALSE]
  ELSE IF it.iter_ = it.iter_end_
    THEN [it |-> it, ret |-> FALSE, filled |-> FALSE]
  ELSE LET r == RangeScan(cat, it.table_, beginAt(cat, it.table_, 0),
                          it.iter_end_, it.projected_columns_.capacity)
       IN  [it |-> [it EXCEPT !.iter_ = r.iter,
                              !.projected_columns_.rows = r.rows,
                              !.pci_ = [bound |-> TRUE, idx |-> 0]],
            ret |-> TRUE, filled |-> TRUE]

\* Advance() that fills the batch up to the end of the table instead of
\* iter_end_
Advance_to_table_end(it, cat) ==
  IF ~it.initialized_
    THEN [it |-> it, ret |-> FALSE, filled |-> FALSE]
  ELSE IF it.iter_ = it.iter_end_
    THEN [it |-> it, ret |-> FALSE, filled |-> FALSE]
  ELSE LET r == RangeScan(cat, it.table_, it.iter_,
                          endAt(cat, it.table_, DefaultEndBlockIdx),
                          it.projected_columns_.capacity)
       IN  [it |-> [it EXCEPT !.iter_ = r.iter,
                              !.projected_columns_.rows = r.rows,
                              !.pci_ = [bound |-> TRUE, idx |-> 0]],
            ret |-> TRUE, filled |-> TRUE]

\* TableVectorIterator::Advance: [it, ret, filled]; filled tells whether
\* the storage batch fill (RangeScan) was called
TableVectorIterator_Advance(it, cat) ==
  IF ~it.initialized_
    THEN [it |-> it, ret |-> FALSE, filled |-> FALSE]
  ELSE IF it.iter_ = it.iter_end_
    THEN [it |-> it, ret |-> FALSE, filled |-> FALSE]
  ELSE LET r == RangeScan(cat, it.table_, it.iter_, it.iter_end_,
                          it.projected_columns_.capacity)
       IN  [it |-> [it EXCEPT !.iter_ = r.iter,
                              !.projected_columns_.rows = r.rows,
                              !.pci_ = [bound |-> TRUE, idx |-> 0]],
            ret |-> TRUE, filled |-> TRUE]

\* Reset() that goes back to the first block of the table
Reset_to_table_begin(it, cat) ==
  IF ~it.initialized_
    THEN it
    ELSE [it EXCEPT !.iter_ = beginAt(cat, it.table_, 0)]

\* Reset() that also sets up a new batch of one more row
Reset_resize(it, cat) ==
  IF ~it.initialized_
    THEN it
    ELSE [it EXCEPT !.iter_ = beginAt(cat, it.table_, it.start_block_idx_),
                    !.projected_columns_.capacity = @ + 1]

\* TableVectorIterator::Reset
TableVectorIterator_Reset(it, cat) ==
  IF ~it.initialized_
    THEN it
    ELSE [it EXCEPT !.iter_ = beginAt(cat, it.table_, it.start_block_idx_)]

\* TableVectorIterator::~TableVectorIterator: the set of its outcomes
\* [mem, crash].  Without Init() projected_columns_ is null and
\* projected_columns_->Size() is undefined: the read faults, or it yields
\* garbage and Deallocate is called with the buffer_ that was never set.
TableVectorIterator_Dtor(it, m) ==
  IF it.projected_columns_.null
    THEN {[mem |-> m, crash |-> "segv"],
          [mem |-> Deallocate(m, it.buffer_), crash |-> "no"]}
    ELSE {[mem |-> Deallocate(m, it.buffer_), crash |-> "no"]}

\* ProjectedColumnsIterator::HasNext on the iterator's row cursor
HasNext(it) ==
  it.pci_.bound /\ it.pci_.idx < Len(it.projected_columns_.rows)

\* the row under the row cursor
CurrentRow(it) == it.projected_columns_.rows[it.pci_.idx + 1]

\* ProjectedColumnsIterator::Advance
PciAdvance(it) == [it EXCEPT !.pci_.idx = @ + 1]

\* ProjectedColumnsIterator::Reset
PciReset(it) == [it EXCEPT !.pci_.idx = 0]

(***************************************************************************)
(* Initial values shared by the specifications.                            *)
(***************************************************************************)
\* no call made on the iterator yet.  sawFalse: Advance() has returned
\* false and Reset() was not called since; sawFalseInit: the same, with
\* Init() counted like Reset(); hi: the last row of the last batch filled
\* since Init() or the last Reset()
NoRow == <<-1, -1>>

NoCall ==
  [op |-> "none", ret |-> FALSE, filled |-> FALSE,
   sawFalse |-> FALSE, sawFalseInit |-> FALSE, hi |-> NoRow]

\* no ParallelScan call in progress
NoScan == [pc |-> "idle", table_oid |-> 0, block_count |-> 0, ret |-> FALSE]

\* a worker thread that runs no task; init_failed marks the worker whose
\* task died in the Init() of its iterator; slot is the thread state the
\* running task passes to the callback (0: none)
IdleWorker ==
  [busy |-> FALSE, init_failed |-> FALSE, range |-> <<0, 0>>, slot |-> 0,
   iter |-> TableVectorIterator(0, <<>>, 0, 0)]

Workers == 1..NumWorkers

ParIdle ==
  /\ ps = NoScan
  /\ pool = {}
  /\ workers = [w \in Workers |-> IdleWorker]
  /\ counters = [w \in Workers |-> 0]
  /\ calls = EmptyBag
  /\ handed = EmptyBag

\* catalogs with at most the table of oid 1
IterCatalogs ==
  {[o \in TableOids |-> IF o = 1 THEN T ELSE NoEntry] : T \in Tables \cup {NoEntry}}

\* block ranges given to the six-argument constructor
BlockRanges ==
  {<<s, e>> : s \in 0..(MaxBlocks + 1), e \in 0..(MaxBlocks + 1)}

\* the iterators the callers construct over table 1: with a column request
\* and the default range, as the tests do, or with no column request and a
\* block range, as ScanTask does
Iterators ==
  {TableVectorIteratorDefault(1, c) : c \in ColRequests}
    \cup {TableVectorIterator(1, <<>>, r[1], r[2]) :
            r \in {q \in BlockRanges : q[1] <= q[2]}}

(***************************************************************************)
(* SpecIter: a caller that makes any sequence of calls on one iterator.    *)
(***************************************************************************)
InitIter ==
  /\ catalog \in IterCatalogs
  /\ tvi \in Iterators
  /\ alive = "live"
  /\ mem = EmptyPool
  /\ crashed = "no"
  /\ last = NoCall
  /\ pc = "free"
  /\ num_tuples = 0
  /\ seen = <<>>
  /\ ParIdle

CanCall == crashed = "no" /\ alive = "live" /\ pc = "free"

\* iter.Init(), called once
CallInit ==
  /\ CanCall
  /\ ~tvi.initialized_
  /\ \E o \in TableVectorIterator_Init(tvi, catalog, mem) :
       /\ tvi' = o.it
       /\ mem' = o.mem
       /\ crashed' = o.crash
       /\ last' = [last EXCEPT !.op = "Init", !.ret = o.ret, !.filled = FALSE,
                               !.sawFalseInit = FALSE, !.hi = NoRow]
  /\ UNCHANGED <<catalog, alive, scanVars, parVars>>

\* iter.Advance()
CallAdvance ==
  /\ CanCall
  /\ LET r == TableVectorIterator_Advance(tvi, catalog) IN
       /\ tvi' = r.it
       /\ last' = [op |-> "Advance", ret |-> r.ret, filled |-> r.filled,
                   sawFalse |-> last.sawFalse \/ ~r.ret,
                   sawFalseInit |-> last.sawFalseInit \/ ~r.ret,
                   hi |-> IF r.filled /\ r.it.projected_columns_.rows # <<>>
                            THEN r.it.projected_columns_.rows[
                                   Len(r.it.projected_columns_.rows)]
                            ELSE last.hi]
  /\ UNCHANGED <<catalog, alive, mem, crashed, scanVars, parVars>>

\* iter.Reset()
CallReset ==
  /\ CanCall
  /\ tvi' = TableVectorIterator_Reset(tvi, catalog)
  /\ last' = [op |-> "Reset", ret |-> FALSE, filled |-> FALSE,
              sawFalse |-> FALSE, sawFalseInit |-> FALSE, hi |-> NoRow]
  /\ UNCHANGED <<catalog, alive, mem, crashed, scanVars, parVars>>

\* iter.GetProjectedColumnsIterator()->Advance(), while it has a next row
CallPciAdvance ==
  /\ CanCall
  /\ HasNext(tvi)
  /\ tvi' = PciAdvance(tvi)
  /\ last' = [last EXCEPT !.op = "PciAdvance", !.ret = FALSE, !.filled = FALSE]
  /\ UNCHANGED <<catalog, alive, mem, crashed, scanVars, parVars>>

\* the iterator goes out of scope
CallDtor ==
  /\ CanCall
  /\ \E o \in TableVectorIterator_Dtor(tvi, mem) :
       /\ mem' = o.mem
       /\ crashed' = o.crash
  /\ alive' = "destroyed"
  /\ last' = [last EXCEPT !.op = "Dtor", !.ret = FALSE, !.filled = FALSE]
  /\ UNCHANGED <<catalog, tvi, scanVars, parVars>>

NextIter == CallInit \/ CallAdvance \/ CallReset \/ CallPciAdvance \/ CallDtor

SpecIter == InitIter /\ [][NextIter]_vars

(***************************************************************************)
(* SpecScan: the scan loop of SimpleIteratorTest over the whole table.     *)
(***************************************************************************)
InitScan ==
  /\ catalog \in {c \in IterCatalogs : c[1].exists}
  /\ tvi \in {TableVectorIteratorDefault(1, c) : c \in ColRequests}
  /\ alive = "live"
  /\ mem = EmptyPool
  /\ crashed = "no"
  /\ last = NoCall
  /\ pc = "init"
  /\ num_tuples = 0
  /\ seen = <<>>
  /\ ParIdle

\* iter.Init();
ScanInit ==
  /\ crashed = "no" /\ pc = "init"
  /\ \E o \in TableVectorIterator_Init(tvi, catalog, mem) :
       /\ tvi' = o.it
       /\ mem' = o.mem
       /\ crashed' = o.crash
  /\ pc' = "advance"
  /\ UNCHANGED <<catalog, alive, last, num_tuples, seen, parVars>>

\* while (iter.Advance())
ScanAdvance ==
  /\ crashed = "no" /\ pc = "advance"
  /\ LET r == TableVectorIterator_Advance(tvi, catalog) IN
       /\ tvi' = r.it
       /\ pc' = IF r.ret THEN "rows" ELSE "done"
  /\ UNCHANGED <<catalog, alive, mem, crashed, last, num_tuples, seen, parVars>>

\* for (; pci->HasNext(); pci->Advance()) { ...; num_tuples++; }
ScanRow ==
  /\ crashed = "no" /\ pc = "rows"
  /\ HasNext(tvi)
  /\ seen' = Append(seen, CurrentRow(tvi))
  /\ num_tuples' = num_tuples + 1
  /\ tvi' = PciAdvance(tvi)
  /\ UNCHANGED <<catalog, alive, mem, crashed, last, pc, parVars>>

\* pci->Reset(); at the end of the loop body
ScanPciReset ==
  /\ crashed = "no" /\ pc = "rows"
  /\ ~HasNext(tvi)
  /\ tvi' = PciReset(tvi)
  /\ pc' = "advance"
  /\ UNCHANGED <<catalog, alive, mem, crashed, last, num_tuples, seen, parVars>>

\* the end of the test body: iter is destroyed
ScanEnd ==
  /\ crashed = "no" /\ pc = "done"
  /\ \E o \in TableVectorIterator_Dtor(tvi, mem) :
       /\ mem' = o.mem
       /\ crashed' = o.crash
  /\ alive' = "destroyed"
  /\ pc' = "exit"
  /\ UNCHANGED <<catalog, tvi, last, num_tuples, seen, parVars>>

NextScan == ScanInit \/ ScanAdvance \/ ScanRow \/ ScanPciReset \/ ScanEnd

SpecScan == InitScan /\ [][NextScan]_vars

(***************************************************************************)
(* tbb::blocked_range<uint32_t> and tbb::parallel_for.                      *)
(***************************************************************************)
\* a block range that starts at block 1
block_range_from_one(block_count) == <<1, block_count>>

\* tbb::blocked_range<uint32_t> block_range(0, block_count, min_grain_size)
block_range(block_count) == <<0, block_count>>

\* blocked_range::empty
empty(r) == ~(r[1] < r[2])

\* blocked_range::size
size(r) == r[2] - r[1]

\* a range that is divisible as soon as it reaches its grain size
is_divisible_at_grain(r) == size(r) >= min_grain_size

\* blocked_range::is_divisible: the range is larger than its grain size
is_divisible(r) == size(r) > min_grain_size

\* blocked_range's splitting constructor: the two halves of r
split(r) ==
  LET middle == r[1] + (r[2] - r[1]) \div 2
  IN  <<(<<r[1], middle>>), (<<middle, r[2]>>)>>

\* a parallel_for that does not wait for the bodies
parallel_for_nowait(p, ws) == TRUE

\* parallel_for returns when no range is left to run and no body is running
parallel_for_done(p, ws) ==
  p = {} /\ \A w \in DOMAIN ws : ~ws[w].busy

(***************************************************************************)
(* ScanTask and TableVectorIterator::ParallelScan.                         *)
(***************************************************************************)
\* the query state the caller of ParallelScan passes
QueryState == "query_state"

\* ScanTask's constructor: table_id_ is a uint16_t
ScanTask(table_oid) ==
  [table_id_ |-> table_oid % Uint16Range, query_state_ |-> QueryState]

\* ThreadStateContainer::AccessThreadStateOfCurrentThread: the state slot
\* of the calling thread; slots are numbered as the worker threads
AccessThreadStateOfCurrentThread(w) == w

\* a task that takes the state slot of the first worker thread, whichever
\* thread runs it
thread_state_of_first_worker(w) == AccessThreadStateOfCurrentThread(1)

\* ScanTask::operator(): the thread state passed to the callback, looked
\* up by the thread w that runs the task
ScanTask_thread_state(w) == AccessThreadStateOfCurrentThread(w)

\* ScanTask::operator() up to the call of scanner_: the private iterator
\* over the block range and its Init(); the outcomes of Init()
ScanTask_Begin(task, r, cat, m) ==
  TableVectorIterator_Init(TableVectorIterator(task.table_id_, <<>>, r[1], r[2]),
                           cat, m)

\* a lookup with the table oid cut to 16 bits, as ScanTask keeps it
GetTable_truncated(cat, table_oid) == GetTable(cat, table_oid % Uint16Range)

\* the catalog lookup of ParallelScan
ParallelScan_GetTable(cat, table_oid) == GetTable(cat, table_oid)

\* rows the inner loop of the counting callback counts after an Advance():
\* for (pci = tvi->GetProjectedColumnsIterator(); pci->HasNext(); pci->Advance())
ScannerCount(it) ==
  IF it.pci_.bound THEN Len(it.projected_columns_.rows) - it.pci_.idx ELSE 0

\* one table per block count, and the oid that resolves to nothing
ParTables ==
  {TableOf(0, 0)} \cup {TableOf(n, 1 + (n % SlotsPerBlock)) : n \in 1..MaxBlocks}

ParCatalogs == [TableOids -> ParTables \cup {NoEntry}]

\* the oids ParallelScan and its tasks look up when called with table_oid
LookedUp(table_oid) == {table_oid, table_oid % Uint16Range}

\* the tables found under the 16-bit oid of the tasks when it is not the
\* oid of the call: none, or a table of at most two blocks
AliasTables == {T \in ParTables \cup {NoEntry} : Len(T.blocks) <= 2}

\* a call of ParallelScan with any table oid, over any catalog (the tables
\* the call never looks up are left out)
InitPar ==
  /\ \E t \in TableOids :
       /\ ps = [pc |-> "start", table_oid |-> t, block_count |-> 0, ret |-> FALSE]
       /\ catalog \in {c \in ParCatalogs :
                         /\ \A o \in TableOids \ LookedUp(t) : c[o] = NoEntry
                         /\ \A o \in LookedUp(t) \ {t} : c[o] \in AliasTables}
  /\ pool = {}
  /\ workers = [w \in Workers |-> IdleWorker]
  /\ counters = [w \in Workers |-> 0]
  /\ calls = EmptyBag
  /\ handed = EmptyBag
  /\ tvi = TableVectorIterator(0, <<>>, 0, 0)
  /\ alive = "live"
  /\ mem = EmptyPool
  /\ crashed = "no"
  /\ last = NoCall
  /\ pc = "par"
  /\ num_tuples = 0
  /\ seen = <<>>

\* ParallelScan up to parallel_for: the lookup, the block count, the range
ParallelScanStart ==
  /\ crashed = "no" /\ ps.pc = "start"
  /\ LET table == ParallelScan_GetTable(catalog, ps.table_oid) IN
       IF table = NullTable
         THEN /\ ps' = [ps EXCEPT !.pc = "returned", !.ret = FALSE]
              /\ pool' = pool
         ELSE LET block_count == GetBlockListSize(catalog, table)
                  r == block_range(block_count)
              IN  /\ ps' = [ps EXCEPT !.pc = "running", !.block_count = block_count]
                  /\ pool' = IF empty(r) THEN {} ELSE {r}
  /\ UNCHANGED <<catalog, iterVars, mem, crashed, scanVars,
                 workers, counters, calls, handed>>

\* parallel_for splits a divisible range
SplitRange ==
  /\ crashed = "no" /\ ps.pc = "running"
  /\ \E r \in pool :
       /\ is_divisible(r)
       /\ pool' = (pool \ {r}) \cup {split(r)[1], split(r)[2]}
  /\ UNCHANGED <<catalog, iterVars, mem, crashed, scanVars,
                 ps, workers, counters, calls, handed>>

\* a worker runs ScanTask::operator() on a range, up to the first
\* statement of the callback
TaskStart ==
  /\ crashed = "no" /\ ps.pc \in {"running", "returned"}
  /\ \E w \in Workers, r \in pool :
       /\ ~workers[w].busy
       /\ pool' = pool \ {r}
       /\ handed' = handed (+) SetToBag({r})
       /\ \E o \in ScanTask_Begin(ScanTask(ps.table_oid), r, catalog, mem) :
            /\ crashed' = o.crash
            /\ IF o.crash # "no"
                 THEN /\ mem' = o.mem
                      /\ workers' = [workers EXCEPT ![w] =
                           [busy |-> FALSE, init_failed |-> TRUE,
                            range |-> r, slot |-> 0, iter |-> o.it]]
                      /\ calls' = calls
               ELSE IF ~o.ret
                 THEN /\ mem' = o.mem
                      /\ workers' = workers
                      /\ calls' = calls
               ELSE /\ mem' = o.mem
                    /\ workers' = [workers EXCEPT ![w] =
                         [busy |-> TRUE, init_failed |-> FALSE,
                          range |-> r, slot |-> ScanTask_thread_state(w),
                          iter |-> o.it]]
                    /\ calls' = calls (+) SetToBag({
                         [worker |-> w,
                          query_state |-> ScanTask(ps.table_oid).query_state_,
                          slot |-> ScanTask_thread_state(w),
                          begin |-> o.it.start_block_idx_,
                          end |-> o.it.end_block_idx_,
                          range |-> r]})
  /\ UNCHANGED <<catalog, iterVars, scanVars, ps, counters>>

\* one round of the callback's loop: while (tvi->Advance()) { count rows };
\* when Advance() returns false the callback returns and the task's
\* iterator is destroyed
ScannerStep ==
  /\ crashed = "no"
  /\ \E w \in Workers :
       /\ workers[w].busy
       /\ LET r == TableVectorIterator_Advance(workers[w].iter, catalog) IN
            IF r.ret
              THEN /\ counters' = [counters EXCEPT ![workers[w].slot] =
                                                    @ + ScannerCount(r.it)]
                   /\ workers' = [workers EXCEPT ![w].iter = r.it]
                   /\ UNCHANGED <<mem, crashed>>
              ELSE /\ \E o \in TableVectorIterator_Dtor(r.it, mem) :
                        /\ mem' = o.mem
                        /\ crashed' = o.crash
                   /\ workers' = [workers EXCEPT ![w] = IdleWorker]
                   /\ counters' = counters
  /\ UNCHANGED <<catalog, iterVars, scanVars, ps, pool, calls, handed>>

\* parallel_for has returned: ParallelScan stops the timer and returns true
ParallelScanReturn ==
  /\ crashed = "no" /\ ps.pc = "running"
  /\ parallel_for_done(pool, workers)
  /\ ps' = [ps EXCEPT !.pc = "returned", !.ret = TRUE]
  /\ UNCHANGED <<catalog, iterVars, mem, crashed, scanVars,
                 pool, workers, counters, calls, handed>>

NextPar ==
  ParallelScanStart \/ SplitRange \/ TaskStart \/ ScannerStep \/ ParallelScanReturn

SpecPar == InitPar /\ [][NextPar]_vars

(***************************************************************************)
(* Properties.                                                             *)
(***************************************************************************)
\* the number of blocks of the table ParallelScan was called on
ScannedBlockCount == Len(catalog[ps.table_oid].blocks)

\* block index k lies in the range r
InRange(k, r) == r[1] <= k /\ k < r[2]

\* C1: the block ranges passed to Scan Tasks are pairwise disjoint and lie
\* in [0, B); once ParallelScan has returned true every block index of
\* [0, B) lies in exactly one of them.
C1_PartitionsDisjointExhaustive ==
  /\ \A r \in BagToSet(handed) : CopiesIn(r, handed) = 1
  /\ \A r, q \in BagToSet(handed) :
       r # q => (r[2] <= q[1] \/ q[2] <= r[1])
  /\ \A r \in BagToSet(handed) : 0 <= r[1] /\ r[2] <= ScannedBlockCount
  /\ (ps.pc = "returned" /\ ps.ret) =>
       \A k \in 0..(ScannedBlockCount - 1) :
         Cardinality({r \in BagToSet(handed) : InRange(k, r)}) = 1

\* a parallel scan that has returned after running three tasks or more
C1_Witness == ps.pc = "returned" /\ ps.ret /\ BagCardinality(handed) >= 3

\* C2 (as claimed): every block range passed to a Scan Task has at least
\* min_grain_size blocks, except possibly the one that ends at B.
C2_GrainLowerBound ==
  \A r \in BagToSet(handed) :
    size(r) >= min_grain_size \/ r[2] = ScannedBlockCount

\* C2 (amended): every block range passed to a Scan Task has at least
\* ceil(min_grain_size / 2) blocks, unless it is the whole range [0, B).
C2_HalfGrainLowerBound ==
  \A r \in BagToSet(handed) :
    \/ size(r) >= (min_grain_size + 1) \div 2
    \/ r = <<0, ScannedBlockCount>>

\* a task was given fewer than min_grain_size blocks that are not the last
\* blocks of the table
C2_Witness ==
  \E r \in BagToSet(handed) :
    size(r) < min_grain_size /\ r[2] < ScannedBlockCount

\* the sum of the workers' counters
RECURSIVE SumCounters(_)
SumCounters(n) == IF n = 0 THEN 0 ELSE counters[n] + SumCounters(n - 1)

\* rows counted by the counting callback run on one iterator to its end
RECURSIVE ScanAll(_, _)
ScanAll(it, cat) ==
  LET r == TableVectorIterator_Advance(it, cat)
  IN  IF r.ret THEN ScannerCount(r.it) + ScanAll(r.it, cat) ELSE 0

\* rows a single sequential iterator over the whole of table oid observes
SequentialCount(cat, oid) ==
  LET o == CHOOSE o \in TableVectorIterator_Init(
                          TableVectorIteratorDefault(oid, <<>>), cat, EmptyPool) : TRUE
  IN  ScanAll(o.it, cat)

\* C3: once ParallelScan has returned, the sum of the workers' counters is
\* the number of rows a sequential scan of the table observes.
C3_ParallelEquivalence ==
  (ps.pc = "returned" /\ ps.ret) =>
    SumCounters(NumWorkers) = SequentialCount(catalog, ps.table_oid)

\* all rows of table 1
AllRows == RowsOfBlocks(catalog, 1, 0, Len(catalog[1].blocks))

\* C4: when the scan loop has ended, it has read every row of the table
\* exactly once, in storage order, and counted as many rows as the table has.
C4_ExhaustiveScan ==
  pc \in {"done", "exit"} =>
    /\ seen = AllRows
    /\ num_tuples = Len(AllRows)

\* the loop has ended after more than two batches over a table whose last
\* block is partly filled
C4_Witness ==
  /\ pc = "done"
  /\ num_tuples > 2 * VectorSize
  /\ catalog[1].blocks[Len(catalog[1].blocks)] < SlotsPerBlock

\* the iterator's table exists and has no block, or its range is empty
EmptyScan ==
  /\ GetTable(catalog, tvi.table_oid_) # NullTable
  /\ \/ Len(catalog[tvi.table_oid_].blocks) = 0
     \/ tvi.start_block_idx_ = tvi.end_block_idx_

\* C5: over a table with no block or a range with start = end, Init()
\* returns true, every Advance() returns false without a batch fill, and
\* the batch buffer stays empty and the row cursor unbound.
C5_EmptyTable ==
  (pc = "free" /\ EmptyScan) =>
    /\ crashed = "no" \/ last.op = "Dtor"
    /\ last.op = "Init" => last.ret
    /\ last.op = "Advance" => ~last.ret /\ ~last.filled
    /\ tvi.projected_columns_.rows = <<>>
    /\ ~tvi.pci_.bound

\* Advance() has returned false on an initialized iterator with an empty
\* range inside a table that has blocks
C5_Witness ==
  /\ pc = "free" /\ EmptyScan
  /\ tvi.initialized_
  /\ last.op = "Advance"
  /\ tvi.start_block_idx_ < Len(catalog[tvi.table_oid_].blocks)

\* C6: when ParallelScan has returned for a table that resolves, it has
\* returned true, no block range is left to run and no worker is still in
\* a Scan Task.
C6_ForkJoin ==
  (ps.pc = "returned" /\ GetTable(catalog, ps.table_oid) # NullTable) =>
    /\ ps.ret
    /\ pool = {}
    /\ \A w \in Workers : ~workers[w].busy

\* ParallelScan has returned after two workers ran the callback
C6_Witness ==
  /\ ps.pc = "returned" /\ ps.ret
  /\ \E c, d \in BagToSet(calls) : c.worker # d.worker

\* C7: when the table oid does not resolve, ParallelScan returns false, no
\* block range is submitted or run, the callback is never invoked and the
\* workers' counters and the memory pool are untouched.
C7_UnresolvedTable ==
  (ps.pc = "returned" /\ GetTable(catalog, ps.table_oid) = NullTable) =>
    /\ ~ps.ret
    /\ pool = {}
    /\ handed = EmptyBag
    /\ calls = EmptyBag
    /\ counters = [w \in Workers |-> 0]
    /\ workers = [w \in Workers |-> IdleWorker]
    /\ mem = EmptyPool

\* ParallelScan has returned false for an oid that does not resolve while
\* the 16 low bits of the oid name a table that has blocks
C7_Witness ==
  /\ ps.pc = "returned" /\ ~ps.ret
  /\ GetTable(catalog, ps.table_oid % Uint16Range) # NullTable
  /\ Len(catalog[ps.table_oid % Uint16Range].blocks) > 0

\* C8: the buffer is allocated at most once, nothing is deallocated that
\* was not allocated, and a destroyed iterator has deallocated exactly what
\* it allocated, its destructor having run to its end.
C8_AllocDeallocMatched ==
  pc = "free" =>
    /\ mem.allocs <= 1
    /\ mem.bad = 0
    /\ alive = "destroyed" =>
         crashed = "no" /\ mem.frees = mem.allocs /\ mem.live = {}

\* the condition under which Advance() has nothing to do
NothingToScan(it) == ~it.initialized_ \/ it.iter_ = it.iter_end_

\* C9 (as claimed): an Advance() called on an iterator that is not
\* initialized or whose cursor is at its end returns false, makes no batch
\* fill and changes no field of the iterator; and once Advance() has
\* returned false, every Advance() before the next Reset() returns false.
C9_AdvanceNoOp ==
  [][(pc = "free" /\ last'.op = "Advance") =>
       /\ NothingToScan(tvi) => (~last'.ret /\ ~last'.filled /\ tvi' = tvi)
       /\ last.sawFalse => ~last'.ret]_vars

\* C9 (amended): the same, with "before the next Reset() or Init()".
C9_AdvanceNoOpUntilResetOrInit ==
  [][(pc = "free" /\ last'.op = "Advance") =>
       /\ NothingToScan(tvi) => (~last'.ret /\ ~last'.filled /\ tvi' = tvi)
       /\ last.sawFalseInit => ~last'.ret]_vars

\* Advance() has returned false at the end of the range, the batch of the
\* last fill and the position of the row cursor in it still in place
C9_Witness ==
  /\ pc = "free"
  /\ last.op = "Advance" /\ ~last.ret
  /\ tvi.initialized_
  /\ tvi.pci_.bound /\ tvi.pci_.idx > 0
  /\ Len(tvi.projected_columns_.rows) > 0

\* C10: a Scan Task whose iterator fails in Init() ends without any effect
\* on the rest of the scan: the process goes on.
C10_SilentInitFailure ==
  \A w \in Workers : workers[w].init_failed => crashed = "no"

(***************************************************************************)
(* C11: the indices of the row cursor.                                     *)
(***************************************************************************)
\* C11, as stated: after Init() with a request of k >= 1 columns the row
\* cursor has the indices 0..k-1 and index i reads the i-th column of the
\* request, in the order of the request
C11_RequestOrder ==
  (tvi.initialized_ /\ tvi.requested # <<>>) =>
     /\ Len(tvi.projected_columns_.cols) = Len(tvi.requested)
     /\ \A i \in 0..(Len(tvi.requested) - 1) :
          RowCursorColumn(tvi, i) = tvi.requested[i + 1]

\* C11, amended: after Init() with a request of k >= 1 columns the row
\* cursor has the indices 0..k-1, they read exactly the requested columns,
\* and index i reads the i-th of them in the storage order of the table
C11_StorageOrder ==
  (tvi.initialized_ /\ tvi.requested # <<>>) =>
     LET k == Len(tvi.requested) IN
     /\ Len(tvi.projected_columns_.cols) = k
     /\ {RowCursorColumn(tvi, i) : i \in 0..(k - 1)}
          = {tvi.requested[j] : j \in 1..k}
     /\ \A i, j \in 0..(k - 1) :
          i < j => StoragePosition(RowCursorColumn(tvi, i))
                     < StoragePosition(RowCursorColumn(tvi, j))

\* a batch was filled for the request <<1, 2>> and the row cursor finds
\* column 1 at the last index
C11_Witness ==
  /\ tvi.initialized_ /\ tvi.requested = <<1, 2>>
  /\ last.op = "Advance" /\ last.ret /\ HasNext(tvi)
  /\ RowCursorColumn(tvi, 1) = 1

(***************************************************************************)
(* C12: the resolved column set.                                           *)
(***************************************************************************)
\* C12: after Init() an empty request has been resolved to the natural
\* column set of the table in storage order, which is not empty, and a
\* request that is not empty has been kept as it was
C12_ResolvedColumnSet ==
  tvi.initialized_ =>
     /\ tvi.col_oids_ # <<>>
     /\ tvi.requested = <<>> => tvi.col_oids_ = GetAllColOid(catalog, tvi.table_)
     /\ tvi.requested # <<>> => tvi.col_oids_ = tvi.requested

\* an iterator constructed with no columns was initialized and filled a
\* batch with all the columns
C12_Witness ==
  /\ tvi.initialized_ /\ tvi.requested = <<>>
  /\ last.op = "Advance" /\ last.ret
  /\ Len(tvi.projected_columns_.cols) = Len(NaturalColOids)

(***************************************************************************)
(* C13: Reset().                                                           *)
(***************************************************************************)
\* cursor a is not after cursor b
CursorLE(a, b) == a.block < b.block \/ (a.block = b.block /\ a.slot <= b.slot)

\* the batches that Advance() calls made on `it` until the first false
\* fill, in the order of the calls
RECURSIVE BatchesFrom(_, _)
BatchesFrom(it, cat) ==
  LET r == TableVectorIterator_Advance(it, cat) IN
  IF ~r.ret THEN <<>>
  ELSE <<r.it.projected_columns_.rows>> \o BatchesFrom(r.it, cat)

\* the iterator in the state its Init() left it in
AsInitialized(it, cat) ==
  (CHOOSE o \in TableVectorIterator_Init(
       TableVectorIterator(it.table_oid_, it.requested,
                           it.start_block_idx_, it.end_block_idx_),
       cat, EmptyPool) : TRUE).it

\* C13: right after Reset() on an initialized iterator the current cursor
\* is at the start block, the end cursor is where Init() put it, and the
\* Advance() calls that follow fill the same batches as a scan made right
\* after Init(); right after Reset() on an iterator that was not
\* initialized the iterator is as it was constructed
C13_ResetRestartsScan ==
  last.op = "Reset" =>
    IF tvi.initialized_
      THEN /\ tvi.iter_ = beginAt(catalog, tvi.table_, tvi.start_block_idx_)
           /\ tvi.iter_end_ = endAt(catalog, tvi.table_, tvi.end_block_idx_)
           /\ BatchesFrom(tvi, catalog) = BatchesFrom(AsInitialized(tvi, catalog), catalog)
      ELSE tvi = TableVectorIterator(tvi.table_oid_, tvi.requested,
                                     tvi.start_block_idx_, tvi.end_block_idx_)

\* Reset() was called in the middle of a scan that began after block 0:
\* a batch has been filled, and two batches or more are to come again
C13_Witness ==
  /\ last.op = "Reset" /\ tvi.initialized_
  /\ tvi.start_block_idx_ > 0
  /\ tvi.projected_columns_.rows # <<>>
  /\ Len(BatchesFrom(tvi, catalog)) >= 2

(***************************************************************************)
(* C15: the order of the batches.                                          *)
(***************************************************************************)
\* C15: an Advance() that returns true does not move the current cursor
\* backwards, fills the batch with rows in increasing block order, and no
\* row of the batch lies in a block before the last row filled since
\* Init() or the last Reset()
C15_MonotoneBlocks ==
  [][(last'.op = "Advance" /\ last'.ret) =>
       LET rows == tvi'.projected_columns_.rows IN
       /\ CursorLE(tvi.iter_, tvi'.iter_)
       /\ \A i, j \in DOMAIN rows : i < j => rows[i][1] <= rows[j][1]
       /\ last.hi # NoRow => \A i \in DOMAIN rows : last.hi[1] <= rows[i][1]]_vars

\* a third block is reached by successive batches of one scan
C15_Witness ==
  /\ last.op = "Advance" /\ last.ret
  /\ last.hi[1] >= 2
  /\ tvi.start_block_idx_ = 0

(***************************************************************************)
(* C16: the cursor stays in its range.                                     *)
(***************************************************************************)
\* C16: once Init() has completed the current cursor lies between the
\* start cursor and the end cursor, and every row in the batch lies in a
\* block of [start_block_idx_, end_block_idx_)
C16_CursorWithinRange ==
  tvi.initialized_ =>
     LET rows == tvi.projected_columns_.rows IN
     /\ CursorLE(beginAt(catalog, tvi.table_, tvi.start_block_idx_), tvi.iter_)
     /\ CursorLE(tvi.iter_, tvi.iter_end_)
     /\ \A i \in DOMAIN rows :
          tvi.start_block_idx_ <= rows[i][1] /\ rows[i][1] < tvi.end_block_idx_

\* an iterator bounded to blocks strictly inside the table has read its
\* range to the end
C16_Witness ==
  /\ tvi.initialized_ /\ last.op = "Advance" /\ last.ret
  /\ tvi.start_block_idx_ > 0
  /\ tvi.end_block_idx_ < GetBlockListSize(catalog, tvi.table_)
  /\ tvi.iter_ = tvi.iter_end_

(***************************************************************************)
(* C18: what Advance() and Reset() leave alone.                            *)
(***************************************************************************)
\* C18: on an initialized iterator, Advance() and Reset() change neither
\* the column set, nor the batch buffer (pointer, layout, capacity, pool
\* allocations), nor the block bounds and the end cursor
C18_Frame ==
  [][(last'.op \in {"Advance", "Reset"} /\ tvi.initialized_) =>
       /\ tvi'.initialized_
       /\ tvi'.col_oids_ = tvi.col_oids_
       /\ tvi'.table_ = tvi.table_
       /\ tvi'.buffer_ = tvi.buffer_
       /\ tvi'.projected_columns_.null = tvi.projected_columns_.null
       /\ tvi'.projected_columns_.cols = tvi.projected_columns_.cols
       /\ tvi'.projected_columns_.capacity = tvi.projected_columns_.capacity
       /\ tvi'.start_block_idx_ = tvi.start_block_idx_
       /\ tvi'.end_block_idx_ = tvi.end_block_idx_
       /\ tvi'.iter_end_ = tvi.iter_end_
       /\ mem' = mem]_vars

\* Reset() was called after a batch was filled, and the buffer is still
\* the one Init() allocated, still live in the pool
C18_Witness ==
  /\ last.op = "Reset" /\ tvi.initialized_
  /\ tvi.projected_columns_.rows # <<>>
  /\ tvi.buffer_ \in mem.live

(***************************************************************************)
(* C14: one call of the callback for each partition.                       *)
(***************************************************************************)
\* C14: every block range handed to a Scan Task has exactly one call of
\* the callback, made with the query state of the ParallelScan call, the
\* state slot of the worker that runs the task and an iterator bounded to
\* that range
C14_OncePerPartition ==
  \A r \in BagToSet(handed) :
    LET made == {c \in BagToSet(calls) : c.range = r} IN
    /\ CopiesIn(r, handed) = 1
    /\ Cardinality(made) = 1
    /\ \A c \in made :
         /\ CopiesIn(c, calls) = 1
         /\ c.query_state = QueryState
         /\ c.slot = c.worker
         /\ c.begin = r[1] /\ c.end = r[2]

(***************************************************************************)
(* C17: what the tasks of a parallel scan share.                           *)
(***************************************************************************)
\* C17: a running task holds the state slot of the worker that runs it;
\* two tasks that run at the same time hold different slots and different
\* live batch buffers; and a step adds to a counter only if it is a step
\* of the running task of the worker that owns the counter
C17_WorkerPrivateState ==
  [][/\ \A w \in Workers :
          workers'[w].busy =>
            /\ workers'[w].slot = w
            /\ workers'[w].iter.buffer_ \in mem'.live
     /\ \A w, v \in Workers :
          (w # v /\ workers'[w].busy /\ workers'[v].busy) =>
            /\ workers'[w].slot # workers'[v].slot
            /\ workers'[w].iter.buffer_ # workers'[v].iter.buffer_
     /\ \A s \in Workers :
          counters'[s] # counters[s] =>
            /\ workers[s].busy /\ workers[s].slot = s
            /\ workers'[s].iter # workers[s].iter
            /\ \A v \in Workers \ {s} : workers'[v] = workers[v]]_vars

\* two tasks run at the same time and each has counted rows in its own
\* counter
C17_Witness ==
  /\ \A w \in Workers : workers[w].busy /\ counters[w] > 0
  /\ crashed = "no"

(***************************************************************************)
(* C19: the table the tasks scan.                                          *)
(***************************************************************************)
\* C19: the iterator of every Scan Task is constructed over the table oid
\* that ParallelScan was called with
C19_TableIdPreserved ==
  \A w \in Workers :
    (workers[w].busy \/ workers[w].init_failed) =>
       workers[w].iter.table_oid_ = ps.table_oid

(***************************************************************************)
(* C20: termination.                                                       *)
(***************************************************************************)
\* C20: a ParallelScan call is never stuck: until it has returned, it or
\* one of its tasks can take a step
C20_ScanTerminates == ps.pc = "returned" \/ ENABLED NextPar

====
